---- MODULE Spec2Model ----
(***************************************************************************)
(* Model of the ABCD detector assessment pipeline: src/main.py and         *)
(* src/helpers/generic_helpers.py.                                         *)
(*                                                                         *)
(* Strings are sequences of tokens.  The tokens "/" and "." are the        *)
(* separators the code splits on, "1st_5_secs" is the marker the code      *)
(* looks for with `in`, every other token is a run of other characters.    *)
(* f-string formatting is concatenation (\o) and "" is << >>.              *)
(*                                                                         *)
(* Two workers each serve one request of execute_abcd_detector against the *)
(* same bucket and brand (FastAPI runs the sync handler in a thread pool). *)
(* A worker that starts after the other has finished is a second,          *)
(* sequential run.                                                         *)
(***************************************************************************)
EXTENDS Integers, Sequences, FiniteSets, TLC

VARIABLES
    store,            \* the bucket: object name -> [generation, trimmedFrom]
    useLLMs,          \* the use_llms argument the requests carry
    detectorOutcome,  \* environment: what the detectors do on each video
    pc,               \* per worker: position in execute_abcd_detector
    blobs,            \* per worker: the listing being iterated
    idx,              \* per worker: position in that listing
    assessments,      \* per worker: the `assessments` dict of main.py:99
    error,            \* per worker: the exception that ended the run, or "none"
    printed,          \* per worker: diagnostics and messages printed
    effects,          \* per worker: downloads, trims and uploads performed
    atStart,          \* per worker: what was true when its trim_videos began
    report            \* per worker: what print/format/save produced

vars == <<store, useLLMs, detectorOutcome, pc, blobs, idx, assessments,
          error, printed, effects, atStart, report>>

Workers == {1, 2}

(***************************************************************************)
(* Bounds and program constants                                            *)
(***************************************************************************)
\* Most objects the bucket holds under the brand's prefix when the runs begin.
MaxObjects == 2

\* input_parameters.VIDEO_SIZE_LIMIT_MB (main.py:27), 7 per main.py:114.
VIDEO_SIZE_LIMIT_MB == 7
\* `video_metadata.size / 1e6`, main.py:116.
BytesPerMB == 1000000
\* Band thresholds of both renderers.
ExcellentThreshold == 80
MightImproveThreshold == 65

(***************************************************************************)
(* Strings                                                                 *)
(***************************************************************************)
Slash == "/"
Dot == "."
Marker1st5Secs == "1st_5_secs"

\* str.split(sep): always at least one part; "" splits to [""].
RECURSIVE Split(_, _)
Split(s, sep) ==
    IF \A i \in 1..Len(s) : s[i] # sep
    THEN <<s>>
    ELSE LET k == CHOOSE i \in 1..Len(s) :
                      s[i] = sep /\ \A j \in 1..(i - 1) : s[j] # sep
         IN  <<SubSeq(s, 1, k - 1)>> \o Split(SubSeq(s, k + 1, Len(s)), sep)

\* `sub in s` for a one-token sub.
Contains(s, tok) == \E i \in 1..Len(s) : s[i] = tok

\* str.startswith, the prefix match of list_blobs.
StartsWith(s, prefix) ==
    Len(prefix) <= Len(s) /\ SubSeq(s, 1, Len(prefix)) = prefix

\* Character order of the tokens used (ASCII: '.' < '/' < digits < '_' < letters).
TokRank(t) ==
    CASE t = "." -> 1
      [] t = "/" -> 2
      [] t = "1st_5_secs" -> 3
      [] t = "_" -> 4
      [] t = "a" -> 5
      [] t = "acme" -> 6
      [] t = "b" -> 7
      [] t = "c" -> 8
      [] t = "d" -> 9
      [] t = "mov" -> 10
      [] t = "mp4" -> 11
      [] t = "sub" -> 12
      [] t = "videos" -> 13
      [] t = "x" -> 14
      [] OTHER -> 15

\* Lexicographic order of names, the order list_blobs returns them in.
RECURSIVE NameLess(_, _)
NameLess(a, b) ==
    IF Len(a) = 0 THEN Len(b) > 0
    ELSE IF Len(b) = 0 THEN FALSE
    ELSE IF a[1] = b[1] THEN NameLess(Tail(a), Tail(b))
    ELSE TokRank(a[1]) < TokRank(b[1])

RECURSIVE SortNames(_)
SortNames(S) ==
    IF S = {} THEN << >>
    ELSE LET m == CHOOSE x \in S : \A y \in S \ {x} : NameLess(x, y)
         IN  <<m>> \o SortNames(S \ {m})

(***************************************************************************)
(* The bucket                                                              *)
(***************************************************************************)
BRAND_NAME == <<"acme">>
BUCKET_NAME == <<"bucket">>

\* brand_videos_folder = f"{brand_name}/videos"
BrandVideosFolder(brand) == brand \o <<Slash, "videos">>

FolderMarker == BrandVideosFolder(BRAND_NAME) \o <<Slash>>
VideoA == BrandVideosFolder(BRAND_NAME) \o <<Slash, "a", Dot, "mp4">>
VideoB == BrandVideosFolder(BRAND_NAME) \o <<Slash, "b", Dot, "mp4">>
VideoC == BrandVideosFolder(BRAND_NAME) \o <<Slash, "c", Dot, "mov">>
VideoX == BrandVideosFolder(BRAND_NAME) \o <<Slash, "x", Dot, "mp4">>
NestedD == BrandVideosFolder(BRAND_NAME) \o <<Slash, "sub", Slash, "d", Dot, "mp4">>
PreviewA == BrandVideosFolder(BRAND_NAME)
              \o <<Slash, "a", "_", Marker1st5Secs, Dot, "mp4">>

\* Sources whose file names have two dots or none, and the preview name the
\* code derives for each of them.
VideoAB == BrandVideosFolder(BRAND_NAME) \o <<Slash, "a", Dot, "b", Dot, "mp4">>
VideoAC == BrandVideosFolder(BRAND_NAME) \o <<Slash, "a", Dot, "c", Dot, "mov">>
VideoNoDot == BrandVideosFolder(BRAND_NAME) \o <<Slash, "a">>
PreviewNoFormat == BrandVideosFolder(BRAND_NAME)
                     \o <<Slash, "a", "_", Marker1st5Secs, Dot>>

\* The objects a bucket may hold when the runs begin.
InitialObjects == {FolderMarker, VideoA, VideoB, VideoC, VideoX, NestedD, PreviewA}

\* blob.size in bytes.
SizeOf(name) ==
    CASE name = VideoA -> 4000000
      [] name = VideoB -> 9000000
      [] name = VideoC -> 7000000
      [] name = VideoX -> 7000001
      [] name = NestedD -> 2000000
      [] name = FolderMarker -> 0
      [] OTHER -> 1000000

\* Whether moviepy's VideoFileClip can open the downloaded file.
Decodable(name) == name # VideoX

Original == [generation |-> 1, trimmedFrom |-> << >>]

\* bucket.list_blobs(prefix=...): the names with the prefix, in name order.
ListBlobs(st, prefix) ==
    SortNames({n \in DOMAIN st : StartsWith(n, prefix)})

\* bucket.get_blob(name): the object's metadata, or None.
Exists(st, name) == name \in DOMAIN st

(***************************************************************************)
(* Name helpers (generic_helpers.py)                                       *)
(***************************************************************************)
\* get_file_name_from_gcs_url: (file_name, file_name_with_format) when the url
\* has exactly three "/"-parts, else the empty string.
GetFileNameFromGcsUrl(gcs_url) ==
    LET url_parts == Split(gcs_url, Slash)
    IN  IF Len(url_parts) = 3
        THEN <<Split(url_parts[3], Dot)[1], url_parts[3]>>
        ELSE << >>

\* get_video_format: the part after the dot when there is exactly one dot.
GetVideoFormat(video_location) ==
    LET gcs_parts == Split(video_location, Dot)
    IN  IF Len(gcs_parts) = 2 THEN gcs_parts[2] ELSE << >>

\* `video_name, video_name_with_format = <value>`: unpacking needs exactly two
\* items; the empty string has none and raises ValueError.
UnpackRaises(value) == Len(value) # 2

\* The skip without its second test: only the parent folder is left out.
IsSkippedBlobFolderOnly(name, brand_videos_folder) ==
    name = brand_videos_folder \o <<Slash>>

\* `video.name == f"{brand_videos_folder}/" or "1st_5_secs" in video.name`
IsSkippedBlob(name, brand_videos_folder) ==
    \/ name = brand_videos_folder \o <<Slash>>
    \/ Contains(name, Marker1st5Secs)

\* f"{video_name}_1st_5_secs.{get_video_format(video_name_with_format)}"
VideoName1st5Secs(video_name, video_name_with_format) ==
    video_name \o <<"_", Marker1st5Secs, Dot>> \o GetVideoFormat(video_name_with_format)

\* f"{brand_videos_folder}/{video_name_1st_5_secs}"
PreviewPath(name, brand_videos_folder) ==
    LET names == GetFileNameFromGcsUrl(name)
    IN  brand_videos_folder \o <<Slash>> \o VideoName1st5Secs(names[1], names[2])

\* A lookup that leaves out the parent folder: the preview is never found.
AlreadyTrimmedWithoutFolder(st, name, brand_videos_folder) ==
    LET names == GetFileNameFromGcsUrl(name)
    IN  Exists(st, VideoName1st5Secs(names[1], names[2]))

\* `bucket.get_blob(video_name_1st_5_secs_parent_folder)` is not None
AlreadyTrimmed(st, name, brand_videos_folder) ==
    Exists(st, PreviewPath(name, brand_videos_folder))

\* What get_n_secs_video_uri_from_uri ends in when its `if` of line 133 is not
\* taken: `return n_secs_video_uri` reads a name never assigned.
UnboundLocalError == <<"UnboundLocalError">>

\* get_n_secs_video_uri_from_uri: "" unless the uri has exactly one dot.
GetNSecsVideoUriFromUri(video_uri, new_name_part) ==
    LET gcs_parts == Split(video_uri, Dot)
    IN  IF Len(gcs_parts) = 2
        THEN LET video_format == gcs_parts[2]
                 long_video_name_parts == Split(gcs_parts[1], Slash)
             IN  IF Len(long_video_name_parts) = 6
                 THEN LET gcs == long_video_name_parts[1]
                          bucket_name == long_video_name_parts[3]
                          brand == long_video_name_parts[4]
                          videos_folder == long_video_name_parts[5]
                          video_name == long_video_name_parts[6]
                                          \o <<"_", new_name_part, Dot>> \o video_format
                      IN  gcs \o <<Slash, Slash>> \o bucket_name \o <<Slash>> \o brand
                            \o <<Slash>> \o videos_folder \o <<Slash>> \o video_name
                 ELSE UnboundLocalError
        ELSE << >>

(***************************************************************************)
(* Detectors and the aggregation (main.py:148-281)                         *)
(***************************************************************************)
\* The detector calls in the order main.py makes them: the results each call
\* returns, and the positions of the returned results that are appended.
Catalogue == <<
    [detector |-> "detect_quick_pacing",
     returns |-> <<"quick_pacing", "quick_pacing_1st_5_secs">>, appended |-> <<1, 2>>],
    [detector |-> "detect_dynamic_start",
     returns |-> <<"dynamic_start">>, appended |-> <<1>>],
    [detector |-> "detect_supers",
     returns |-> <<"supers">>, appended |-> <<1>>],
    [detector |-> "detect_supers_with_audio",
     returns |-> <<"supers_with_audio">>, appended |-> <<1>>],
    [detector |-> "detect_brand_visuals",
     returns |-> <<"brand_visuals", "brand_visuals_1st_5_secs",
                   "brand_visuals_logo_big_1st_5_secs">>, appended |-> <<1, 2>>],
    [detector |-> "detect_brand_mention_speech",
     returns |-> <<"brand_mention_speech", "brand_mention_speech_1st_5_secs">>,
     appended |-> <<1, 2>>],
    [detector |-> "detect_product_visuals",
     returns |-> <<"product_visuals", "product_visuals_1st_5_secs">>,
     appended |-> <<1, 2>>],
    [detector |-> "detect_product_mention_text",
     returns |-> <<"product_mention_text", "product_mention_text_1st_5_secs">>,
     appended |-> <<1, 2>>],
    [detector |-> "detect_product_mention_speech",
     returns |-> <<"product_mention_speech", "product_mention_speech_1st_5_secs">>,
     appended |-> <<1, 2>>],
    [detector |-> "detect_visible_face",
     returns |-> <<"visible_face_1st_5_secs", "visible_face_close_up">>,
     appended |-> <<1, 2>>],
    [detector |-> "detect_presence_of_people",
     returns |-> <<"presence_of_people", "presence_of_people_1st_5_secs">>,
     appended |-> <<1, 2>>],
    [detector |-> "detect_audio_speech_early",
     returns |-> <<"audio_speech_early">>, appended |-> <<1>>],
    [detector |-> "detect_overall_pacing",
     returns |-> <<"overall_pacing">>, appended |-> <<1>>],
    [detector |-> "detect_call_to_action_speech",
     returns |-> <<"call_to_action_speech">>, appended |-> <<1>>],
    [detector |-> "detect_call_to_action_text",
     returns |-> <<"call_to_action_text">>, appended |-> <<1>>] >>

\* What one detector call returns under an outcome: one feature dict per result.
DetectorReturn(call, outcome) ==
    [i \in 1..Len(call.returns) |->
        [feature |-> call.returns[i],
         feature_detected |-> call.returns[i] \in outcome.detected]]

\* The results of a call put in front of the list instead of at its end.
PrependResults(features, call, results) ==
    [i \in 1..Len(call.appended) |-> results[call.appended[i]]] \o features

\* The features.append(...) lines after one call.
AppendResults(features, call, results) ==
    features \o [i \in 1..Len(call.appended) |-> results[call.appended[i]]]

\* The features list after the first n detector calls.
RECURSIVE FeaturesAfter(_, _)
FeaturesAfter(n, outcome) ==
    IF n = 0 THEN << >>
    ELSE AppendResults(FeaturesAfter(n - 1, outcome), Catalogue[n],
                       DetectorReturn(Catalogue[n], outcome))

\* The loop of main.py:268-271: one is added for every entry of the list whose
\* feature_detected is true.
CountPassed(features) ==
    Cardinality({i \in 1..Len(features) : features[i].feature_detected})

\* The score with `//` in place of `/`.
ScoreFloorDivision(passed_features_count, total_features) ==
    [num |-> (passed_features_count * 100) \div total_features, den |-> 1]

\* score = (passed_features_count * 100) / total_features, kept as a fraction.
Score(passed_features_count, total_features) ==
    [num |-> passed_features_count * 100, den |-> total_features]

\* The video_assessment dict of main.py:274-280.
VideoAssessment(video_name_with_format, video_uri, features) ==
    [video_name |-> video_name_with_format,
     video_uri |-> video_uri,
     features |-> features,
     passed_features_count |-> CountPassed(features),
     score |-> Score(CountPassed(features), Len(features))]

\* video_uri = f"gs://{BUCKET_NAME}/{video.name}"
VideoUri(name) == <<"gs:", Slash, Slash>> \o BUCKET_NAME \o <<Slash>> \o name

\* The gate with `>=` in place of `>`.
SizeGateInclusive(use_llms, size) ==
    use_llms /\ size >= VIDEO_SIZE_LIMIT_MB * BytesPerMB

\* `use_llms and size_mb > VIDEO_SIZE_LIMIT_MB`, with size_mb = size / 1e6.
SizeGate(use_llms, size) ==
    use_llms /\ size > VIDEO_SIZE_LIMIT_MB * BytesPerMB

\* assessments = {"brand_name": brand_name, "video_assessments": []}
EmptyAssessments(brand) == [brand_name |-> brand, video_assessments |-> << >>]

(***************************************************************************)
(* Environment: what the detectors do on a video                           *)
(***************************************************************************)
NumCalls == Len(Catalogue)

\* Every feature name a detector can return.
AllFeatureNames ==
    UNION {{Catalogue[n].returns[i] : i \in 1..Len(Catalogue[n].returns)} : n \in 1..NumCalls}

\* The names in the order they are appended when every call returns.
AppendedNames ==
    LET all == FeaturesAfter(NumCalls, [raiseAt |-> 0, detected |-> {}])
    IN  [i \in 1..Len(all) |-> all[i].feature]

\* An outcome: the features the detectors report detected, and the call that
\* raises (0: none does).
Detects(k) == [raiseAt |-> 0, detected |-> {AppendedNames[i] : i \in 1..k}]
Raises(n) == [raiseAt |-> n, detected |-> {}]

DetectorOutcomes ==
    {Detects(k) : k \in {0, 15}} \cup {Raises(5)}

(***************************************************************************)
(* State                                                                   *)
(***************************************************************************)
NoEffects ==
    [downloaded |-> << >>, trimmed |-> << >>, uploaded |-> << >>,
     cacheHits |-> << >>, trimReturned |-> FALSE]

NoReport ==
    [printed |-> FALSE, printBands |-> << >>,
     formatted |-> FALSE, digestBands |-> << >>,
     json |-> FALSE, csv |-> FALSE, uploaded |-> FALSE,
     csvFile |-> [header |-> << >>, rows |-> << >>]]

\* The objects of a listing that the loops go on to process.
Candidates(S) ==
    {n \in S : /\ ~IsSkippedBlob(n, BrandVideosFolder(BRAND_NAME))
               /\ ~UnpackRaises(GetFileNameFromGcsUrl(n))}

InitialStores ==
    {S \in SUBSET InitialObjects : Cardinality(S) <= MaxObjects}

InitialStore(S) ==
    [n \in S |-> IF n = PreviewA
                 THEN [generation |-> 1, trimmedFrom |-> VideoA]
                 ELSE Original]

Init ==
    /\ \E S \in InitialStores :
          /\ store = InitialStore(S)
          /\ detectorOutcome \in [Candidates(S) -> DetectorOutcomes]
          /\ atStart = [w \in Workers |->
                          [store |-> InitialStore(S), listing |-> << >>, completed |-> {}]]
    /\ useLLMs \in BOOLEAN
    /\ pc = [w \in Workers |-> "start"]
    /\ blobs = [w \in Workers |-> << >>]
    /\ idx = [w \in Workers |-> 1]
    /\ assessments = [w \in Workers |-> EmptyAssessments(BRAND_NAME)]
    /\ error = [w \in Workers |-> "none"]
    /\ printed = [w \in Workers |-> << >>]
    /\ effects = [w \in Workers |-> NoEffects]
    /\ report = [w \in Workers |-> NoReport]

(***************************************************************************)
(* execute_abcd_detector and trim_videos                                   *)
(***************************************************************************)
Folder == BrandVideosFolder(BRAND_NAME)
CurrentVideo(w) == blobs[w][idx[w]]

\* main.py:301-304 and generic_helpers.py:163-170: the call of trim_videos up
\* to its listing of the brand's videos.
ExecuteAbcdDetector(w) ==
    /\ pc[w] = "start"
    /\ blobs' = [blobs EXCEPT ![w] = ListBlobs(store, Folder)]
    /\ idx' = [idx EXCEPT ![w] = 1]
    /\ atStart' = [atStart EXCEPT ![w] =
                     [store |-> store,
                      listing |-> ListBlobs(store, Folder),
                      completed |-> {v \in Workers \ {w} : effects[v].trimReturned}]]
    /\ pc' = [pc EXCEPT ![w] = "trim_loop"]
    /\ UNCHANGED <<store, useLLMs, detectorOutcome, assessments, error, printed,
                   effects, report>>

\* generic_helpers.py:172-191 and 201-202: one iteration of the loop of
\* trim_videos: the existence check of the preview and, on a miss, the
\* download of the source (download_and_save_video, 205-221).
TrimVideosLoop(w) ==
    /\ pc[w] = "trim_loop"
    /\ idx[w] <= Len(blobs[w])
    /\ LET video == CurrentVideo(w)
           skipped == IsSkippedBlob(video, Folder)
           raises == ~skipped /\ UnpackRaises(GetFileNameFromGcsUrl(video))
           hit == ~skipped /\ ~raises /\ AlreadyTrimmed(store, video, Folder)
       IN  /\ pc' = [pc EXCEPT ![w] =
                       IF raises THEN "crashed"
                       ELSE IF skipped \/ hit THEN "trim_loop" ELSE "trim_push"]
           /\ error' = [error EXCEPT ![w] = IF raises THEN "ValueError" ELSE @]
           /\ idx' = [idx EXCEPT ![w] = IF skipped \/ hit THEN @ + 1 ELSE @]
           /\ effects' = [effects EXCEPT
                            ![w].cacheHits = IF hit THEN Append(@, video) ELSE @,
                            ![w].downloaded =
                                IF skipped \/ raises \/ hit THEN @ ELSE Append(@, video)]
           /\ printed' = [printed EXCEPT ![w] =
                            IF hit THEN Append(@, [msg |-> "already trimmed", video |-> video])
                            ELSE @]
    /\ UNCHANGED <<store, useLLMs, detectorOutcome, blobs, assessments, atStart, report>>

\* blob.upload_from_filename(path, if_generation_match=0): the object is
\* created only when no live generation exists, else PreconditionFailed.
UploadPreconditionHolds(st, name) == ~Exists(st, name)

\* clip.write_videofile(new_video_name_path): moviepy chooses the codec by the
\* extension of the file name; for a name that ends in "." it has none to go
\* by, and whether it writes the file or raises is left to the library.
WriteVideofileOutcomes(new_video_name) ==
    IF new_video_name[Len(new_video_name)] = Dot THEN BOOLEAN ELSE {TRUE}

\* generic_helpers.py:193-200 and 241-257: trim_and_push_video_to_gcs.  Opening
\* an undecodable file raises; the guarded upload raises when the object exists.
\* Neither is caught in trim_videos or its callers.
TrimAndPushVideoToGcs(w) ==
    /\ pc[w] = "trim_push"
    /\ \E written \in WriteVideofileOutcomes(PreviewPath(CurrentVideo(w), Folder)) :
       LET video == CurrentVideo(w)
           preview == PreviewPath(video, Folder)
           trimmed == Decodable(video) /\ written
           created == trimmed /\ UploadPreconditionHolds(store, preview)
       IN  /\ effects' = [effects EXCEPT
                            ![w].trimmed = IF trimmed THEN Append(@, video) ELSE @,
                            ![w].uploaded = IF created THEN Append(@, preview) ELSE @]
           /\ store' = IF created
                       THEN [n \in DOMAIN store \cup {preview} |->
                               IF n = preview
                               THEN [generation |-> 1, trimmedFrom |-> video]
                               ELSE store[n]]
                       ELSE store
           /\ error' = [error EXCEPT ![w] =
                          IF ~Decodable(video) THEN "DecodeError"
                          ELSE IF ~written THEN "WriteError"
                          ELSE IF ~created THEN "PreconditionFailed" ELSE @]
           /\ pc' = [pc EXCEPT ![w] = IF created THEN "trim_loop" ELSE "crashed"]
           /\ idx' = [idx EXCEPT ![w] = IF created THEN @ + 1 ELSE @]
    /\ UNCHANGED <<useLLMs, detectorOutcome, blobs, assessments, printed, atStart, report>>

(***************************************************************************)
(* execute_abcd_assessment_for_videos                                      *)
(***************************************************************************)
\* generic_helpers.py:201-202 falls out of the loop, trim_videos returns, and
\* main.py:99-104 starts the assessment with a fresh listing.
ExecuteAbcdAssessmentForVideos(w) ==
    /\ pc[w] = "trim_loop"
    /\ idx[w] > Len(blobs[w])
    /\ effects' = [effects EXCEPT ![w].trimReturned = TRUE]
    /\ assessments' = [assessments EXCEPT ![w] = EmptyAssessments(BRAND_NAME)]
    /\ blobs' = [blobs EXCEPT ![w] = ListBlobs(store, Folder)]
    /\ idx' = [idx EXCEPT ![w] = 1]
    /\ pc' = [pc EXCEPT ![w] = "assess_loop"]
    /\ UNCHANGED <<store, useLLMs, detectorOutcome, error, printed, atStart, report>>

\* `if not video_name or not video_name_with_format`
NameNotResolved(names) == names[1] = << >> \/ names[2] = << >>

\* main.py:106-285: one iteration of the loop over the listing.  A detector
\* that raises is not caught: the exception leaves the function.
AssessVideo(w) ==
    /\ pc[w] = "assess_loop"
    /\ idx[w] <= Len(blobs[w])
    /\ LET video == CurrentVideo(w)
           names == GetFileNameFromGcsUrl(video)
           skipped == IsSkippedBlob(video, Folder)
           raises == ~skipped /\ UnpackRaises(names)
           unresolved == ~skipped /\ ~raises /\ NameNotResolved(names)
           gated == /\ ~skipped /\ ~raises /\ ~unresolved
                    /\ SizeGate(useLLMs, SizeOf(video))
           runs == ~skipped /\ ~raises /\ ~unresolved /\ ~gated
           failed == runs /\ detectorOutcome[video].raiseAt # 0
           assessed == runs /\ ~failed
       IN  /\ pc' = [pc EXCEPT ![w] = IF raises \/ failed THEN "crashed" ELSE @]
           /\ error' = [error EXCEPT ![w] =
                          IF raises THEN "ValueError"
                          ELSE IF failed THEN "DetectorError" ELSE @]
           /\ idx' = [idx EXCEPT ![w] = IF raises \/ failed THEN @ ELSE @ + 1]
           /\ printed' = [printed EXCEPT ![w] =
                            IF unresolved
                            THEN Append(@, [msg |-> "name not resolved", video |-> video])
                            ELSE IF gated
                            THEN Append(@, [msg |-> "size greater than limit", video |-> video])
                            ELSE IF runs
                            THEN Append(@, [msg |-> "processing", video |-> video])
                            ELSE @]
           /\ assessments' = [assessments EXCEPT ![w].video_assessments =
                                IF assessed
                                THEN Append(@, VideoAssessment(names[2], VideoUri(video),
                                        FeaturesAfter(NumCalls, detectorOutcome[video])))
                                ELSE @]
    /\ UNCHANGED <<store, useLLMs, detectorOutcome, blobs, effects, atStart, report>>

(***************************************************************************)
(* The end of execute_abcd_detector, and abcd_detector after it            *)
(***************************************************************************)
NoVideosMessage == [msg |-> "There are no videos to display.", video |-> << >>]

\* The check left out: an empty assessment goes on to the report.
EmptyResultSignalMissing(abcd_assessments) == "none"

\* main.py:314-316: what an assessment with no video ends in, else "none".
EmptyResultSignal(abcd_assessments) ==
    IF Len(abcd_assessments.video_assessments) = 0 THEN "SystemExit" ELSE "none"

\* main.py:287 and 314-316: the loop is over, the assessments are returned
\* and execute_abcd_detector prints and exits when there are none.
CheckAssessments(w) ==
    /\ pc[w] = "assess_loop"
    /\ idx[w] > Len(blobs[w])
    /\ LET signal == EmptyResultSignal(assessments[w])
       IN  /\ error' = [error EXCEPT ![w] = signal]
           /\ printed' = [printed EXCEPT ![w] =
                            IF signal = "none" THEN @ ELSE Append(@, NoVideosMessage)]
           /\ pc' = [pc EXCEPT ![w] = IF signal = "none" THEN "print" ELSE "exited"]
    /\ UNCHANGED <<store, useLLMs, detectorOutcome, blobs, idx, assessments, effects,
                   atStart, report>>

\* round(score, 2), in hundredths: to the nearest, a tie to the even one.
Round2(score) ==
    LET n == score.num * 100
        q == n \div score.den
        r == n % score.den
    IN  IF 2 * r < score.den THEN q
        ELSE IF 2 * r > score.den THEN q + 1
        ELSE IF q % 2 = 0 THEN q ELSE q + 1

\* generic_helpers.py:307-319: format_assessment_results bands the rounded score.
FormatBand(video_assessment) ==
    LET score == Round2(video_assessment.score)
    IN  IF score >= ExcellentThreshold * 100 THEN "Excellent"
        ELSE IF MightImproveThreshold * 100 <= score /\ score < ExcellentThreshold * 100
        THEN "Might Improve"
        ELSE "Needs Review"

\* generic_helpers.py:349-354: print_abcd_assetssments bands the stored score.
PrintBand(video_assessment) ==
    LET score == video_assessment.score
    IN  IF score.num >= ExcellentThreshold * score.den THEN "Excellent"
        ELSE IF /\ score.num >= MightImproveThreshold * score.den
                /\ score.num < ExcellentThreshold * score.den
        THEN "Might Improve"
        ELSE "Needs Review"

\* The loop of generic_helpers.py:305-320 over the video assessments.
FormatBands(abcd_assessment) ==
    [i \in 1..Len(abcd_assessment.video_assessments) |->
        FormatBand(abcd_assessment.video_assessments[i])]

\* The loop of generic_helpers.py:339-354 over the video assessments.
PrintBands(abcd_assessment) ==
    [i \in 1..Len(abcd_assessment.video_assessments) |->
        PrintBand(abcd_assessment.video_assessments[i])]

(***************************************************************************)
(* generate_csv_assessment_results (generic_helpers.py:367-433)            *)
(***************************************************************************)
\* The feature names in the order sorted() gives strings (code points).
SortedFeatureNames == <<
    "audio_speech_early", "brand_mention_speech", "brand_mention_speech_1st_5_secs",
    "brand_visuals", "brand_visuals_1st_5_secs", "brand_visuals_logo_big_1st_5_secs",
    "call_to_action_speech", "call_to_action_text", "dynamic_start", "overall_pacing",
    "presence_of_people", "presence_of_people_1st_5_secs", "product_mention_speech",
    "product_mention_speech_1st_5_secs", "product_mention_text",
    "product_mention_text_1st_5_secs", "product_visuals", "product_visuals_1st_5_secs",
    "quick_pacing", "quick_pacing_1st_5_secs", "supers", "supers_with_audio",
    "visible_face_1st_5_secs", "visible_face_close_up" >>

FeatureRank(name) ==
    CHOOSE i \in 1..Len(SortedFeatureNames) : SortedFeatureNames[i] = name

\* header = ['Video Name', 'Video URI', 'Overall Score', 'Passed Features',
\*           'Total Features']
CsvFixedHeader ==
    << <<"Video Name">>, <<"Video URI">>, <<"Overall Score">>,
       <<"Passed Features">>, <<"Total Features">> >>

\* The first pass: features_set.add(feature.get("feature")) for every feature
\* of every video assessment.
CsvFeaturesSet(abcd_assessment) ==
    UNION {{abcd_assessment.video_assessments[i].features[k].feature :
                k \in 1..Len(abcd_assessment.video_assessments[i].features)} :
           i \in 1..Len(abcd_assessment.video_assessments)}

\* Every feature name of every video, in the order the first pass meets them.
RECURSIVE NamesInPassOrder(_)
NamesInPassOrder(video_assessments) ==
    IF video_assessments = << >> THEN << >>
    ELSE [k \in 1..Len(Head(video_assessments).features) |->
             Head(video_assessments).features[k].feature]
           \o NamesInPassOrder(Tail(video_assessments))

\* The names without the sort: each in the place the first pass met it first.
CsvFeaturesListFirstSeen(abcd_assessment) ==
    LET all == NamesInPassOrder(abcd_assessment.video_assessments)
        first == {i \in 1..Len(all) : \A j \in 1..(i - 1) : all[j] # all[i]}
    IN  [k \in 1..Cardinality(first) |->
            all[CHOOSE i \in first : Cardinality({j \in first : j < i}) = k - 1]]

\* features_list = sorted(features_set)
CsvFeaturesList(abcd_assessment) ==
    LET features_set == CsvFeaturesSet(abcd_assessment)
        InSet(name) == name \in features_set
    IN  SelectSeq(SortedFeatureNames, InSet)

\* The header: the five fixed columns, then the Detected, the Score and the
\* Explanation columns of every feature of the list.
CsvHeader(abcd_assessment) ==
    LET features_list == CsvFeaturesList(abcd_assessment)
        Columns(kind) == [k \in 1..Len(features_list) |-> <<features_list[k], kind>>]
    IN  CsvFixedHeader \o Columns(" - Detected") \o Columns(" - Score")
          \o Columns(" - Explanation")

\* The entries of a video's features list that carry a name.
EntriesNamed(video_assessment, feature_name) ==
    {k \in 1..Len(video_assessment.features) :
        video_assessment.features[k].feature = feature_name}

\* feature_detection.get(feature_name, False): the dict holds, for a name, the
\* feature_detected of the last entry with that name.
FeatureDetection(video_assessment, feature_name) ==
    LET ks == EntriesNamed(video_assessment, feature_name)
    IN  IF ks = {} THEN FALSE
        ELSE video_assessment.features[CHOOSE k \in ks : \A j \in ks : j <= k]
               .feature_detected

\* The llm_explanation of a feature: that of the first element of its
\* llm_details list when it has a non-empty one, else "".
LlmExplanation(feature) ==
    IF "llm_details" \notin DOMAIN feature THEN << >>
    ELSE IF Len(feature.llm_details) = 0 THEN << >>
    ELSE IF "llm_explanation" \notin DOMAIN feature.llm_details[1] THEN << >>
    ELSE feature.llm_details[1].llm_explanation

\* feature_explanation.get(feature_name, "")
FeatureExplanation(video_assessment, feature_name) ==
    LET ks == EntriesNamed(video_assessment, feature_name)
    IN  IF ks = {} THEN << >>
        ELSE LlmExplanation(
                 video_assessment.features[CHOOSE k \in ks : \A j \in ks : j <= k])

\* explanation.replace('\n', ' ').replace('"', '""')
CleanExplanation(explanation) ==
    [i \in 1..Len(explanation) |->
        IF explanation[i] = "\n" THEN " "
        ELSE IF explanation[i] = "\"" THEN "\"\""
        ELSE explanation[i]]

\* A row that holds cells only for the features the video itself produced.
CsvRowProducedOnly(video_assessment, features_list) ==
    LET Produced(f) == EntriesNamed(video_assessment, f) # {}
        own == SelectSeq(features_list, Produced)
    IN  <<video_assessment.video_name, video_assessment.video_uri,
          Round2(video_assessment.score), video_assessment.passed_features_count,
          Len(video_assessment.features)>>
          \o [k \in 1..Len(own) |->
                IF FeatureDetection(video_assessment, own[k]) THEN "Yes" ELSE "No"]
          \o [k \in 1..Len(own) |->
                IF FeatureDetection(video_assessment, own[k]) THEN 1 ELSE 0]
          \o [k \in 1..Len(own) |->
                CleanExplanation(FeatureExplanation(video_assessment, own[k]))]

\* One data row (generic_helpers.py:390-433); the score cell is in hundredths.
CsvRow(video_assessment, features_list) ==
    LET detection == [k \in 1..Len(features_list) |->
                         FeatureDetection(video_assessment, features_list[k])]
    IN  <<video_assessment.video_name, video_assessment.video_uri,
          Round2(video_assessment.score), video_assessment.passed_features_count,
          Len(video_assessment.features)>>
          \o [k \in 1..Len(features_list) |-> IF detection[k] THEN "Yes" ELSE "No"]
          \o [k \in 1..Len(features_list) |-> IF detection[k] THEN 1 ELSE 0]
          \o [k \in 1..Len(features_list) |->
                CleanExplanation(FeatureExplanation(video_assessment, features_list[k]))]

\* The file written: the header row and one row per video assessment.
GenerateCsvAssessmentResults(abcd_assessment) ==
    LET features_list == CsvFeaturesList(abcd_assessment)
    IN  [header |-> CsvHeader(abcd_assessment),
         rows |-> [i \in 1..Len(abcd_assessment.video_assessments) |->
                     CsvRow(abcd_assessment.video_assessments[i], features_list)]]

\* main.py:319-321: print_abcd_assetssments, then the assessments are returned.
PrintAbcdAssetssments(w) ==
    /\ pc[w] = "print"
    /\ report' = [report EXCEPT ![w].printed = TRUE,
                                ![w].printBands = PrintBands(assessments[w])]
    /\ pc' = [pc EXCEPT ![w] = "format"]
    /\ UNCHANGED <<store, useLLMs, detectorOutcome, blobs, idx, assessments, error,
                   printed, effects, atStart>>

\* main.py:361-382: format_assessment_results, then the JSON record and the
\* CSV file are written and uploaded under {brand}/assessments/, outside the
\* videos prefix.
AbcdDetectorReport(w) ==
    /\ pc[w] = "format"
    /\ report' = [report EXCEPT ![w].formatted = TRUE,
                                ![w].digestBands = FormatBands(assessments[w]),
                                ![w].json = TRUE, ![w].csv = TRUE, ![w].uploaded = TRUE,
                                ![w].csvFile = GenerateCsvAssessmentResults(assessments[w])]
    /\ pc' = [pc EXCEPT ![w] = "done"]
    /\ UNCHANGED <<store, useLLMs, detectorOutcome, blobs, idx, assessments, error,
                   printed, effects, atStart>>

Next ==
    \E w \in Workers :
        \/ ExecuteAbcdDetector(w)
        \/ TrimVideosLoop(w)
        \/ TrimAndPushVideoToGcs(w)
        \/ ExecuteAbcdAssessmentForVideos(w)
        \/ AssessVideo(w)
        \/ CheckAssessments(w)
        \/ PrintAbcdAssetssments(w)
        \/ AbcdDetectorReport(w)

Spec == Init /\ [][Next]_vars

(***************************************************************************)
(* Properties                                                              *)
(***************************************************************************)
Range(seq) == {seq[i] : i \in 1..Len(seq)}

VideoAssessmentsOf(w) == assessments[w].video_assessments

\* The number of entries of a features list that are detected.
RECURSIVE NumDetected(_)
NumDetected(features) ==
    IF features = << >> THEN 0
    ELSE (IF Head(features).feature_detected THEN 1 ELSE 0) + NumDetected(Tail(features))

\* C1: every appended video assessment has total = len(features) > 0,
\* 0 <= passed_features_count <= total, passed_features_count = the number of
\* features whose feature_detected is true, and score = 100 * passed / total,
\* so that 0 <= score <= 100.
C1_ScoreInvariant ==
    \A w \in Workers : \A i \in 1..Len(VideoAssessmentsOf(w)) :
        LET va == VideoAssessmentsOf(w)[i]
            total == Len(va.features)
            passed == va.passed_features_count
        IN  /\ total > 0
            /\ 0 <= passed /\ passed <= total
            /\ passed = NumDetected(va.features)
            /\ va.score.den > 0
            /\ va.score.num * total = 100 * passed * va.score.den
            /\ 0 <= va.score.num /\ va.score.num <= 100 * va.score.den

\* A video was appended with some but not all of its features detected.
C1_Witness ==
    \E w \in Workers : \E i \in 1..Len(VideoAssessmentsOf(w)) :
        LET va == VideoAssessmentsOf(w)[i]
        IN  0 < va.passed_features_count /\ va.passed_features_count < Len(va.features)

\* The second of two sequential runs: trim_videos began after another run's
\* trim_videos had returned.
IsSecondRun(w) == pc[w] # "start" /\ atStart[w].completed # {}

\* The listed objects trim_videos has gone through, and those it does not skip.
TrimProcessed(w) ==
    IF effects[w].trimReturned THEN atStart[w].listing
    ELSE SubSeq(blobs[w], 1, idx[w] - 1)

IsSource(name) == ~IsSkippedBlob(name, Folder)

\* C2: a run of trim_videos that follows a completed one on the unchanged
\* store downloads, trims and uploads nothing, finds every source video
\* already trimmed, and leaves the store as the first run left it.
C2_SequentialIdempotence ==
    \A w \in Workers :
        IsSecondRun(w) =>
            /\ effects[w].downloaded = << >>
            /\ effects[w].trimmed = << >>
            /\ effects[w].uploaded = << >>
            /\ effects[w].cacheHits = SelectSeq(TrimProcessed(w), IsSource)
            /\ error[w] \notin {"ValueError", "DecodeError", "PreconditionFailed"}
            /\ store = atStart[w].store

\* A second run has returned from trim_videos with a cache hit for a preview
\* that the first run created.
C2_Witness ==
    \E w \in Workers :
        /\ IsSecondRun(w)
        /\ effects[w].trimReturned
        /\ \E v \in atStart[w].completed :
              \E i \in 1..Len(effects[v].trimmed) :
                  effects[v].trimmed[i] \in Range(effects[w].cacheHits)

\* C3: with two workers running trim_videos on the same brand, each source
\* video is transformed (downloaded, trimmed, uploaded) at most once.
C3_TransformAtMostOnce ==
    \A name \in DOMAIN store :
        Cardinality({w \in Workers : name \in Range(effects[w].trimmed)}) <= 1

\* C4: when both workers found the same preview missing and reached the upload,
\* the store holds exactly one preview object, created once, and neither run
\* was ended by the other's upload.
C4_UploadRaceSafe ==
    \A name \in DOMAIN store :
        (\A w \in Workers : name \in Range(effects[w].trimmed)) =>
            /\ Exists(store, PreviewPath(name, Folder))
            /\ store[PreviewPath(name, Folder)].generation = 1
            /\ \A w \in Workers : error[w] # "PreconditionFailed"

(***************************************************************************)
(* The renderers on their own: print_abcd_assetssments and                 *)
(* format_assessment_results applied to a brand assessment of one video    *)
(* with any number of features, of which any number are detected.          *)
(***************************************************************************)
\* A features list of `total` entries, the first `passed` of them detected.
FeaturesList(passed, total) ==
    [i \in 1..total |->
        [feature |-> AppendedNames[((i - 1) % Len(AppendedNames)) + 1],
         feature_detected |-> i <= passed]]

\* (passed, total): every count for short lists, and the counts around the
\* band thresholds for a long one.
RenderCases ==
    {<<k, t>> : k \in 0..5, t \in {5}}
      \cup {<<k, t>> \in (0..20) \X {20} : TRUE}
      \cup {<<k, t>> \in (0..23) \X {23} : TRUE}
      \cup {<<k, t>> \in (659..663) \X {1017} : TRUE}
      \cup {<<k, t>> \in (3202..3204) \X {4004} : TRUE}

RenderedAssessment(passed, total) ==
    [brand_name |-> BRAND_NAME,
     video_assessments |->
        <<VideoAssessment(<<"a", Dot, "mp4">>, VideoUri(VideoA),
                          FeaturesList(passed, total))>>]

RenderInit ==
    /\ store = InitialStore({VideoA})
    /\ detectorOutcome = [n \in {VideoA} |-> Detects(0)]
    /\ atStart = [w \in Workers |->
                    [store |-> InitialStore({VideoA}), listing |-> << >>, completed |-> {}]]
    /\ useLLMs = FALSE
    /\ pc = [w \in Workers |-> "print"]
    /\ blobs = [w \in Workers |-> << >>]
    /\ idx = [w \in Workers |-> 1]
    /\ \E c \in RenderCases :
          assessments = [w \in Workers |-> RenderedAssessment(c[1], c[2])]
    /\ error = [w \in Workers |-> "none"]
    /\ printed = [w \in Workers |-> << >>]
    /\ effects = [w \in Workers |-> NoEffects]
    /\ report = [w \in Workers |-> NoReport]

RenderNext ==
    \E w \in Workers :
        \/ PrintAbcdAssetssments(w)
        \/ AbcdDetectorReport(w)

RenderSpec == RenderInit /\ [][RenderNext]_vars

\* The band the stored score determines: 'Excellent' iff score >= 80,
\* 'Might Improve' iff 65 <= score < 80, 'Needs Review' otherwise.
BandOfStoredScore(score) ==
    IF score.num >= 80 * score.den THEN "Excellent"
    ELSE IF score.num >= 65 * score.den THEN "Might Improve"
    ELSE "Needs Review"

\* C5: both renderers report, for every video assessment, the band its stored
\* score determines, and so agree with each other.
C5_RenderersBandByStoredScore ==
    \A w \in Workers :
        /\ report[w].printed =>
              \A i \in 1..Len(VideoAssessmentsOf(w)) :
                  report[w].printBands[i] = BandOfStoredScore(VideoAssessmentsOf(w)[i].score)
        /\ report[w].formatted =>
              \A i \in 1..Len(VideoAssessmentsOf(w)) :
                  report[w].digestBands[i] = BandOfStoredScore(VideoAssessmentsOf(w)[i].score)

(***************************************************************************)
(* Properties of the assessment loop and of the end of the run             *)
(***************************************************************************)
\* The listed objects the assessment loop has gone through.
AssessProcessed(w) ==
    IF effects[w].trimReturned THEN SubSeq(blobs[w], 1, idx[w] - 1) ELSE << >>

\* Discovered (neither the folder marker nor a preview) and well named.
WellNamed(name) ==
    /\ ~IsSkippedBlob(name, Folder)
    /\ Len(Split(name, Slash)) = 3
    /\ ~NameNotResolved(GetFileNameFromGcsUrl(name))

OverLimit(name) == SizeOf(name) > VIDEO_SIZE_LIMIT_MB * BytesPerMB

HasAssessment(w, name) ==
    \E i \in 1..Len(VideoAssessmentsOf(w)) :
        VideoAssessmentsOf(w)[i].video_uri = VideoUri(name)

\* C6: a discovered, well-named video the loop has gone through has no
\* assessment iff use_llms is set and its size is strictly above
\* VIDEO_SIZE_LIMIT_MB megabytes; and the loop is never ended at a video it
\* skips for its size, so the videos after it are still reached.
C6_SizeGate ==
    \A w \in Workers :
        /\ \A i \in 1..Len(AssessProcessed(w)) :
              LET video == AssessProcessed(w)[i]
              IN  WellNamed(video) =>
                    (~HasAssessment(w, video) <=> (useLLMs /\ OverLimit(video)))
        /\ (/\ effects[w].trimReturned
            /\ idx[w] <= Len(blobs[w])
            /\ WellNamed(CurrentVideo(w))
            /\ useLLMs /\ OverLimit(CurrentVideo(w)))
              => pc[w] = "assess_loop"

\* A finished run that skipped a video for its size and assessed a later one.
C6_Witness ==
    \E w \in Workers :
        /\ pc[w] = "done"
        /\ \E i, j \in 1..Len(blobs[w]) :
              /\ i < j
              /\ WellNamed(blobs[w][i]) /\ useLLMs /\ OverLimit(blobs[w][i])
              /\ ~HasAssessment(w, blobs[w][i])
              /\ HasAssessment(w, blobs[w][j])

\* The run has got past the empty check of execute_abcd_detector.
ReportStarted(w) == report[w] # NoReport \/ pc[w] \in {"print", "format", "done"}

\* The assessment loop is over and the empty check has been made.
Checked(w) == effects[w].trimReturned /\ pc[w] \notin {"assess_loop", "crashed"}

\* The uris of the listed videos that are neither malformed nor skipped.
NonSkippedUris(w) ==
    LET Kept(name) == WellNamed(name) /\ ~(useLLMs /\ OverLimit(name))
        kept == SelectSeq(blobs[w], Kept)
    IN  [i \in 1..Len(kept) |-> VideoUri(kept[i])]

AssessedUris(w) ==
    [i \in 1..Len(VideoAssessmentsOf(w)) |-> VideoAssessmentsOf(w)[i].video_uri]

\* C7: a run with no video assessment ends in the empty-result signal with
\* nothing printed as a report, formatted, written or uploaded; a run that
\* gets to the report holds exactly the non-skipped videos, and at least one.
C7_NoReportWithoutAssessments ==
    \A w \in Workers :
        /\ ReportStarted(w) =>
              /\ Len(VideoAssessmentsOf(w)) > 0
              /\ AssessedUris(w) = NonSkippedUris(w)
        /\ (Checked(w) /\ Len(VideoAssessmentsOf(w)) = 0) =>
              /\ pc[w] = "exited"
              /\ error[w] = "SystemExit"
              /\ report[w] = NoReport
              /\ printed[w][Len(printed[w])] = NoVideosMessage

\* A run whose listing held objects and in which no video was assessed.
C7_Witness ==
    \E w \in Workers : pc[w] = "exited" /\ Len(blobs[w]) > 0

\* What the caller of a run sees at its end: the value the assessment
\* returned, the signal and the last message.
RunResult(w) ==
    [returned |-> assessments[w],
     signal |-> error[w],
     message |-> IF printed[w] = << >> THEN "" ELSE printed[w][Len(printed[w])].msg]

\* The same for a run whose listing holds no video: the loop of main.py:106
\* makes no iteration and the dict of main.py:99 is returned as it is.
NoVideosFoundResult ==
    [returned |-> EmptyAssessments(BRAND_NAME),
     signal |-> EmptyResultSignal(EmptyAssessments(BRAND_NAME)),
     message |-> NoVideosMessage.msg]

\* Every discovered video was skipped for its size, and there was one.
AllSkippedBySize(w) ==
    /\ Checked(w)
    /\ \E i \in 1..Len(blobs[w]) : WellNamed(blobs[w][i])
    /\ \A i \in 1..Len(blobs[w]) :
          WellNamed(blobs[w][i]) => (useLLMs /\ OverLimit(blobs[w][i]))

\* C8: a run in which every discovered video is skipped by the size gate does
\* not end as a run in which no videos were found ends.
C8_AllSkippedDistinguishable ==
    \A w \in Workers : AllSkippedBySize(w) => RunResult(w) # NoVideosFoundResult

\* The path does not decompose into {brand}/{category}/{filename}.
Malformed(name) ==
    ~IsSkippedBlob(name, Folder) /\ Len(Split(name, Slash)) # 3

\* C9: an object whose path is malformed is skipped and is not fatal: no run
\* is ended at such an object, in trim_videos or in the assessment loop.
C9_MalformedNotFatal ==
    \A w \in Workers :
        (idx[w] <= Len(blobs[w]) /\ Malformed(CurrentVideo(w))) => pc[w] # "crashed"

\* C10: a detector that raises does not end the run: the video is appended
\* with the feature recorded as not detected.
C10_DetectorErrorContained ==
    \A w \in Workers :
        /\ error[w] # "DetectorError"
        /\ \A i \in 1..Len(AssessProcessed(w)) :
              LET video == AssessProcessed(w)[i]
              IN  (/\ WellNamed(video) /\ ~(useLLMs /\ OverLimit(video))
                   /\ detectorOutcome[video].raiseAt # 0)
                    => HasAssessment(w, video)

(***************************************************************************)
(* Properties of the features list, of discovery and of preview failures   *)
(***************************************************************************)
\* The number of results the first n detector calls return.
RECURSIVE ReturnedCount(_)
ReturnedCount(n) ==
    IF n = 0 THEN 0 ELSE ReturnedCount(n - 1) + Len(Catalogue[n].returns)

\* C11: the features list of every appended video holds every result that the
\* detector calls run for it returned, each once: its length, the total of
\* the score, is the number of results returned.
C11_TotalCountsEveryResult ==
    \A w \in Workers : \A i \in 1..Len(VideoAssessmentsOf(w)) :
        LET va == VideoAssessmentsOf(w)[i]
        IN  /\ Len(va.features) = ReturnedCount(NumCalls)
            /\ \A name \in AllFeatureNames :
                  Cardinality({k \in 1..Len(va.features) :
                                  va.features[k].feature = name}) = 1

\* C16: a source that cannot be decoded is fatal for that video only:
\* trim_videos is not ended by it and goes on to the videos after it.
C16_DecodeFailureContained ==
    \A w \in Workers :
        /\ error[w] # "DecodeError"
        /\ (/\ ~effects[w].trimReturned
            /\ idx[w] <= Len(blobs[w])
            /\ ~Decodable(CurrentVideo(w)))
              => pc[w] # "crashed"

\* The number of times the preview marker occurs in a name.
MarkerCount(name) == Cardinality({i \in 1..Len(name) : name[i] = Marker1st5Secs})

\* The folder-marker object or a preview clip.
MarkerOrPreview(name) == name = FolderMarker \/ MarkerCount(name) > 0

ObjectsUnderPrefix == {n \in DOMAIN store : StartsWith(n, Folder)}
SourceObjects == {n \in ObjectsUnderPrefix : ~MarkerOrPreview(n)}

\* Previews whose source is not in the bucket; no run creates or removes one.
OrphanPreviews ==
    {n \in ObjectsUnderPrefix :
        MarkerCount(n) > 0 /\ store[n].trimmedFrom \notin DOMAIN store}

\* C14: no run downloads, trims or assesses the folder marker or a preview
\* clip: no object carries the preview suffix twice, no preview was trimmed
\* from a preview, no preview has a video assessment, and the objects under the
\* videos prefix are at most two per source video plus the marker (previews
\* whose source is not in the bucket are not made by a run and not counted).
C14_NoMarkerOrPreviewProcessed ==
    /\ \A n \in ObjectsUnderPrefix :
          /\ MarkerCount(n) <= 1
          /\ MarkerCount(n) > 0 => ~MarkerOrPreview(store[n].trimmedFrom)
    /\ \A w \in Workers :
          /\ \A n \in Range(effects[w].downloaded) \cup Range(effects[w].trimmed)
                        \cup Range(effects[w].cacheHits) : ~MarkerOrPreview(n)
          /\ \A n \in ObjectsUnderPrefix : MarkerOrPreview(n) => ~HasAssessment(w, n)
    /\ Cardinality(ObjectsUnderPrefix \ OrphanPreviews)
          <= 2 * Cardinality(SourceObjects) + 1

\* A second run has finished over a listing that held the folder marker and a
\* preview that a run created.
C14_Witness ==
    \E w \in Workers :
        /\ IsSecondRun(w) /\ pc[w] = "done"
        /\ FolderMarker \in Range(blobs[w])
        /\ \E n \in Range(blobs[w]) :
              MarkerCount(n) = 1 /\ store[n].trimmedFrom \in Range(blobs[w])

\* The names of the appended results in the order of the detector calls.
RECURSIVE CatalogueOrder(_)
CatalogueOrder(n) ==
    IF n = 0 THEN << >>
    ELSE CatalogueOrder(n - 1)
           \o [i \in 1..Len(Catalogue[n].appended) |->
                 Catalogue[n].returns[Catalogue[n].appended[i]]]

\* C15: video_assessments lists the assessed videos in the order of the
\* listing with one entry per object, every features list has the order of the
\* detector calls, and two runs that have finished their loops over the same
\* bucket and detector outcomes hold equal brand assessments.
C15_DiscoveryOrderStable ==
    /\ \A w \in Workers :
          LET Assessed(name) == HasAssessment(w, name)
              listed == SelectSeq(SubSeq(blobs[w], 1, idx[w] - 1), Assessed)
          IN  /\ AssessedUris(w) = [i \in 1..Len(listed) |-> VideoUri(listed[i])]
              /\ \A i \in 1..Len(VideoAssessmentsOf(w)) :
                    LET features == VideoAssessmentsOf(w)[i].features
                    IN  [k \in 1..Len(features) |-> features[k].feature]
                          = CatalogueOrder(NumCalls)
    /\ (\A w \in Workers : Checked(w)) => \A v, w \in Workers : assessments[v] = assessments[w]

\* Both runs have finished with two videos assessed each.
C15_Witness ==
    \A w \in Workers : pc[w] = "done" /\ Len(VideoAssessmentsOf(w)) >= 2

(***************************************************************************)
(* generate_csv_assessment_results on its own: the report step applied to  *)
(* brand assessments whose videos produced different features, the second  *)
(* request holding the videos of the first in another order.               *)
(***************************************************************************)
CsvFeature(name, detected) == [feature |-> name, feature_detected |-> detected]

\* A feature with the llm_details a detector that used the LLM attaches.
CsvFeatureExplained(name, detected, explanation) ==
    [feature |-> name, feature_detected |-> detected,
     llm_details |-> <<[llm_explanation |-> explanation]>>]

\* The features lists a video may carry into the report.
CsvFeatureLists ==
    { <<CsvFeature("supers", TRUE), CsvFeature("dynamic_start", FALSE)>>,
      <<CsvFeatureExplained("dynamic_start", TRUE,
                            <<"cut at", "\n", "\"", "0:02", "\"">>)>>,
      <<CsvFeature("quick_pacing", FALSE), CsvFeature("supers", FALSE),
        CsvFeature("call_to_action_text", TRUE)>>,
      <<CsvFeatureExplained("call_to_action_text", FALSE, << >>),
        CsvFeature("audio_speech_early", TRUE)>> }

CsvVideos == <<VideoA, VideoB, VideoC>>

OrdersOf(n) ==
    {p \in [1..n -> 1..n] : \A i, j \in 1..n : p[i] = p[j] => i = j}

CsvAssessment(features_of, order) ==
    [brand_name |-> BRAND_NAME,
     video_assessments |->
        [i \in 1..Len(CsvVideos) |->
            VideoAssessment(GetFileNameFromGcsUrl(CsvVideos[order[i]])[2],
                            VideoUri(CsvVideos[order[i]]),
                            features_of[order[i]])]]

CsvInit ==
    /\ store = InitialStore({VideoA})
    /\ detectorOutcome = [n \in {VideoA} |-> Detects(0)]
    /\ atStart = [w \in Workers |->
                    [store |-> InitialStore({VideoA}), listing |-> << >>, completed |-> {}]]
    /\ useLLMs = FALSE
    /\ pc = [w \in Workers |-> "format"]
    /\ blobs = [w \in Workers |-> << >>]
    /\ idx = [w \in Workers |-> 1]
    /\ \E features_of \in [1..Len(CsvVideos) -> CsvFeatureLists] :
          \E order \in OrdersOf(Len(CsvVideos)) :
              assessments =
                  <<CsvAssessment(features_of, [i \in 1..Len(CsvVideos) |-> i]),
                    CsvAssessment(features_of, order)>>
    /\ error = [w \in Workers |-> "none"]
    /\ printed = [w \in Workers |-> << >>]
    /\ effects = [w \in Workers |-> NoEffects]
    /\ report = [w \in Workers |-> NoReport]

CsvNext == \E w \in Workers : AbcdDetectorReport(w)

CsvSpec == CsvInit /\ [][CsvNext]_vars

\* One sequence holds the elements of the other in another order.
IsPermutationOf(s, t) ==
    /\ Len(s) = Len(t)
    /\ \E p \in OrdersOf(Len(s)) : \A i \in 1..Len(s) : t[i] = s[p[i]]

\* The names of the Detected columns of a header, in column order.
DetectedColumns(header) ==
    LET n == (Len(header) - Len(CsvFixedHeader)) \div 3
    IN  [k \in 1..n |-> header[Len(CsvFixedHeader) + k][1]]

\* C12: the feature names of the CSV columns are the distinct names of the
\* run in sorted order, and are the same list, with the same header row, for
\* every order of the same video assessments.
C12_CsvColumnsPermutationInvariant ==
    /\ \A w \in Workers :
          report[w].csv =>
              LET names == DetectedColumns(report[w].csvFile.header)
              IN  /\ {names[k] : k \in 1..Len(names)} = CsvFeaturesSet(assessments[w])
                  /\ \A j, k \in 1..Len(names) :
                        j < k => FeatureRank(names[j]) < FeatureRank(names[k])
    /\ \A v, w \in Workers :
          (/\ report[v].csv /\ report[w].csv
           /\ IsPermutationOf(assessments[v].video_assessments,
                              assessments[w].video_assessments))
            => report[v].csvFile.header = report[w].csvFile.header

\* Both files are written, for orders of the videos in which the first pass
\* meets the names in different orders.
C12_Witness ==
    /\ \A w \in Workers : report[w].csv
    /\ assessments[1] # assessments[2]
    /\ NamesInPassOrder(assessments[1].video_assessments)
         # NamesInPassOrder(assessments[2].video_assessments)
    /\ Len(DetectedColumns(report[1].csvFile.header)) >= 4

\* The feature is among those the video's features list holds.
Produced(video_assessment, feature_name) ==
    \E k \in 1..Len(video_assessment.features) :
        video_assessment.features[k].feature = feature_name

\* feature_detected of the video's entry for the feature.
DetectedIn(video_assessment, feature_name) ==
    \E k \in 1..Len(video_assessment.features) :
        /\ video_assessment.features[k].feature = feature_name
        /\ video_assessment.features[k].feature_detected

\* C13: every data row is as wide as the header, 5 + 3 * n cells for the n
\* distinct feature names of the run; the cells at the places of a feature's
\* Detected, Score and Explanation columns are that feature's: 'No', 0 and ""
\* when the video never produced it, else 'Yes' iff feature_detected, and the
\* Score cell is 1 iff the Detected cell is 'Yes'.
C13_CsvRowsAlignedWithHeader ==
    \A w \in Workers :
        report[w].csv =>
            LET header == report[w].csvFile.header
                rows == report[w].csvFile.rows
                n == Cardinality(CsvFeaturesSet(assessments[w]))
            IN  /\ Len(header) = 5 + 3 * n
                /\ Len(rows) = Len(VideoAssessmentsOf(w))
                /\ \A k \in 1..n :
                      /\ header[5 + k][2] = " - Detected"
                      /\ header[5 + n + k] = <<header[5 + k][1], " - Score">>
                      /\ header[5 + 2 * n + k] = <<header[5 + k][1], " - Explanation">>
                /\ \A i \in 1..Len(rows) :
                      LET va == VideoAssessmentsOf(w)[i]
                      IN  /\ Len(rows[i]) = Len(header)
                          /\ rows[i][2] = va.video_uri
                          /\ \A k \in 1..n :
                                LET feature_name == header[5 + k][1]
                                    detected == rows[i][5 + k]
                                    score == rows[i][5 + n + k]
                                    explanation == rows[i][5 + 2 * n + k]
                                IN  /\ detected \in {"Yes", "No"}
                                    /\ score \in {0, 1}
                                    /\ score = 1 <=> detected = "Yes"
                                    /\ IF Produced(va, feature_name)
                                       THEN detected = "Yes" <=> DetectedIn(va, feature_name)
                                       ELSE /\ detected = "No"
                                            /\ score = 0
                                            /\ explanation = << >>

\* A file is written in which a video's row has a feature it never produced
\* between two it produced, one of them detected.
C13_Witness ==
    \E w \in Workers :
        /\ report[w].csv
        /\ \E i \in 1..Len(VideoAssessmentsOf(w)) :
              LET va == VideoAssessmentsOf(w)[i]
                  names == DetectedColumns(report[w].csvFile.header)
              IN  \E j, k, l \in 1..Len(names) :
                      /\ j < k /\ k < l
                      /\ Produced(va, names[j])
                      /\ ~Produced(va, names[k])
                      /\ DetectedIn(va, names[l])

(***************************************************************************)
(* The pipeline over a folder whose file names have two dots or none       *)
(***************************************************************************)
NamingObjects == {VideoA, VideoAB, VideoAC, VideoNoDot, PreviewNoFormat}

\* PreviewNoFormat, when the bucket holds it, was left by a run on a.b.mp4.
NamingStore(S) ==
    [n \in S |-> IF n = PreviewNoFormat
                 THEN [generation |-> 1, trimmedFrom |-> VideoAB]
                 ELSE Original]

NamingInit ==
    /\ \E S \in {T \in SUBSET NamingObjects : Cardinality(T) <= MaxObjects} :
          /\ store = NamingStore(S)
          /\ detectorOutcome \in [Candidates(S) -> DetectorOutcomes]
          /\ atStart = [w \in Workers |->
                          [store |-> NamingStore(S), listing |-> << >>, completed |-> {}]]
    /\ useLLMs \in BOOLEAN
    /\ pc = [w \in Workers |-> "start"]
    /\ blobs = [w \in Workers |-> << >>]
    /\ idx = [w \in Workers |-> 1]
    /\ assessments = [w \in Workers |-> EmptyAssessments(BRAND_NAME)]
    /\ error = [w \in Workers |-> "none"]
    /\ printed = [w \in Workers |-> << >>]
    /\ effects = [w \in Workers |-> NoEffects]
    /\ report = [w \in Workers |-> NoReport]

NamingSpec == NamingInit /\ [][Next]_vars

\* The listed objects that trim_videos derives a preview name for.
ListedSources(w) ==
    {n \in Range(blobs[w]) : /\ ~MarkerOrPreview(n)
                             /\ Len(Split(n, Slash)) = 3}

\* C17: two distinct source videos of the folder never get the same preview
\* path, and a cache hit is reported for a source only when the preview found
\* was trimmed from that source.
C17_PreviewNameInjective ==
    \A w \in Workers :
        /\ \A m, n \in ListedSources(w) :
              m # n => PreviewPath(m, Folder) # PreviewPath(n, Folder)
        /\ \A n \in Range(effects[w].cacheHits) :
              store[PreviewPath(n, Folder)].trimmedFrom = n

\* C18: for every video assessed, the uri get_n_secs_video_uri_from_uri gives
\* for its preview is the uri of the path trim_videos derived for it, and an
\* object of that name is in the bucket.
C18_PreviewUriNamesTrimmedObject ==
    \A w \in Workers : \A n \in DOMAIN store :
        HasAssessment(w, n) =>
            LET derived == GetNSecsVideoUriFromUri(VideoUri(n), Marker1st5Secs)
            IN  /\ derived = VideoUri(PreviewPath(n, Folder))
                /\ \E o \in DOMAIN store : VideoUri(o) = derived

====
